---- MODULE Spec2Model ----
(***************************************************************************)
(* Verification model of the LabelMint backup / disaster-recovery tooling. *)
(*                                                                         *)
(*   Spec         scripts/backup-testing-framework.py : main() and         *)
(*                BackupTestingFramework.run_all_tests                     *)
(*   MonitorSpec  lambda/rto-rpo-monitor.py : handler() and the probes,    *)
(*                the scorer and the alert evaluation it calls             *)
(*   RestoreSpec  scripts/backup-testing-framework.py : the restore        *)
(*                sub-checks _test_postgresql_pitr and                     *)
(*                _test_redis_snapshot_restore with their wait-loops       *)
(*   LambdaSpec   lambda/backup-test-lambda.py : handler() and its tests   *)
(*   ReportSpec   scripts/backup-testing-framework.py : the RPO of the     *)
(*                test results and the report's RPO analysis               *)
(*   RerunSpec    scripts/backup-testing-framework.py : several            *)
(*                run_all_tests calls on one instance                      *)
(*                                                                         *)
(* Times are whole minutes.  Python floats are modelled as exact rationals *)
(* <<numerator, denominator>> with a positive denominator; float('inf') is *)
(* the value Inf.                                                          *)
(***************************************************************************)
EXTENDS Integers, Sequences, FiniteSets, TLC

VARIABLES
    \* ---- backup-testing-framework.py ----
    pc,             \* position of main(): "main", "run_all_tests", "returned", "exited"
    config,         \* self.config (the part the orchestration reads)
    idx,            \* position of the for-loop of run_all_tests in `tests`
    results,        \* the dict `results` of run_all_tests: test key -> TestMetrics
    test_results,   \* self.test_results: the list of TestMetrics
    inputs,         \* what each executed test met: test key -> outcome of its sub-checks
    calls,          \* how often each test function has been called
    report,         \* the report built by _generate_test_report (its summary)
    notification,   \* the message kind chosen by _send_notifications
    caught,         \* errors raised and caught after the tests ran
    exit_code,      \* the argument of sys.exit
    \* ---- rto-rpo-monitor.py ----
    mpc,            \* position of handler()
    rpo_threshold_minutes,
    sns_topic_arn,
    response,       \* the provider's answer to the probe that ran last
    postgres_rpo,
    redis_rpo,
    replication_status,
    scores,         \* the locals of calculate_backup_health_score
    health_score,
    alerts,         \* the list `alerts` of send_alerts_if_needed
    published,      \* number of SNS publishes of this invocation
    handler_result, \* the dict returned by handler (statusCode)
    \* ---- backup-testing-framework.py, one restore sub-check ----
    rpc,            \* position inside the sub-check and its test function
    subcheck,       \* key of the sub-check in `details`: "pitr_test" or "restore_test"
    restore_path,   \* the exit path the sub-check took
    waited,         \* time.time() - start_time, in seconds
    polls,          \* status polls made by the wait-loop
    provisioned,    \* the restore job was started / the cluster creation was attempted
    cleanup_calls,  \* calls of _cleanup_test_restore_instance / delete_replication_group
    cleanup_failed, \* the cleanup met an exception (and swallowed it)
    ret,            \* the boolean the sub-check returns
    restore_in,     \* the outcomes of all sub-checks of the test function
    resource_result, \* the TestMetrics of the test function
    \* ---- backup-test-lambda.py ----
    lpc,            \* position of handler()
    lambda_sns_topic_arn,
    lambda_answers, \* the provider's answers to the test that ran last
    lambda_test_results, \* the dict test_results of handler
    lambda_notification, \* the SNS notification handler asked for
    lambda_result,  \* the dict returned by handler (statusCode and the counts)
    \* ---- backup-testing-framework.py, the RPO of the results ----
    ppc,            \* position in the run: which test computes its RPO next
    postgresql_answer, \* the provider's answer to _calculate_postgresql_rpo
    redis_answer,   \* the provider's answer to _calculate_redis_rpo
    rpos,           \* recovery_point_objective of the results in self.test_results
    rpo_rto_analysis, \* report['rpo_rto_analysis'], its RPO keys
    \* ---- backup-testing-framework.py, one instance run several times ----
    upc,            \* position of the caller of the instance
    run_environment, \* self.config['environment']
    run_resource_weights, \* self.config['resource_weights'], when the config file has the key
    runs,           \* run_all_tests calls started so far
    instance_test_results, \* self.test_results
    run_results,    \* the results of the current run_all_tests call, in order
    run_idx,        \* position of the for-loop of the current call
    run_report,     \* report['summary'] of the latest call
    run_notification \* the message kind of the latest call

fvars == <<pc, config, idx, results, test_results, inputs, calls, report,
           notification, caught, exit_code>>
mvars == <<mpc, rpo_threshold_minutes, sns_topic_arn, response, postgres_rpo,
           redis_rpo, replication_status, scores, health_score, alerts,
           published, handler_result>>
rvars == <<rpc, subcheck, restore_path, waited, polls, provisioned, cleanup_calls,
           cleanup_failed, ret, restore_in, resource_result>>
lvars == <<lpc, lambda_sns_topic_arn, lambda_answers, lambda_test_results,
           lambda_notification, lambda_result>>
pvars == <<ppc, postgresql_answer, redis_answer, rpos, rpo_rto_analysis>>
uvars == <<upc, run_environment, run_resource_weights, runs, instance_test_results, run_results, run_idx,
           run_report, run_notification>>
vars == <<fvars, mvars, rvars, lvars, pvars, uvars>>

None == "None"

(***************************************************************************)
(*                    scripts/backup-testing-framework.py                  *)
(***************************************************************************)

PASSED == "PASSED"
FAILED == "FAILED"
SKIPPED == "SKIPPED"
TIMEOUT == "TIMEOUT"
TestResult == {PASSED, FAILED, SKIPPED, TIMEOUT}

\* config['environment'] values the run distinguishes
Environments == {"production", "staging"}

\* str(e) of the exceptions a test can meet
ErrorTexts == {"AccessDenied", "EndpointConnectionError"}

\* at most this many sub-checks of one test return False in one run
MaxFailedChecks == 1

\* the list `tests` of run_all_tests
Tests(environment) ==
    LET base == <<"POSTGRESQL", "REDIS", "S3">>
    IN  IF environment = "production"
        THEN Append(base, "disaster_recovery")
        ELSE base

AllTests == {"POSTGRESQL", "REDIS", "S3", "disaster_recovery"}

\* the keys of the dict `details` of each test function
Checks(t) ==
    CASE t = "POSTGRESQL" ->
            {"backup_check", "pitr_test", "cross_region_replication", "integrity_check"}
      [] t = "REDIS" ->
            {"snapshot_check", "restore_test", "replication_check", "aof_check"}
      [] t = "S3" ->
            {"versioning_check", "encryption_check", "replication_check",
             "lifecycle_check", "accessibility_test"}
      [] t = "disaster_recovery" ->
            {"health_check", "dns_failover", "dr_readiness", "sync_check"}

\* test_name of the TestMetrics each test function builds
TestName(t) ==
    CASE t = "POSTGRESQL" -> "postgresql_backup_recovery"
      [] t = "REDIS" -> "redis_backup_recovery"
      [] t = "S3" -> "s3_backup"
      [] t = "disaster_recovery" -> "disaster_recovery_failover"

\* str(test_name) of the key of `tests`
KeyStr(t) ==
    CASE t = "POSTGRESQL" -> "BackupType.POSTGRESQL"
      [] t = "REDIS" -> "BackupType.REDIS"
      [] t = "S3" -> "BackupType.S3"
      [] t = "disaster_recovery" -> "disaster_recovery"

TestMetrics(name, result, details) ==
    [test_name |-> name, result |-> result, details |-> details]

\* What one call of a test function meets: every sub-check returns a boolean
\* ("checks"), a step inside the function's try raises ("error"), or the
\* call itself raises ("escapes").
TestInputs(t) ==
    {[kind |-> "checks", checks |-> [c \in Checks(t) |-> c \notin bad]] :
        bad \in {s \in SUBSET Checks(t) : Cardinality(s) <= MaxFailedChecks}}
    \cup {[kind |-> "error", error |-> e] : e \in ErrorTexts}
    \cup {[kind |-> "escapes", error |-> e] : e \in ErrorTexts}

\* a variant of the test functions whose except clause drops str(e)
TestFuncDropsError(t, in) ==
    IF in.kind = "checks"
    THEN TestMetrics(TestName(t),
                     IF \A c \in Checks(t) : in.checks[c] THEN PASSED ELSE FAILED,
                     in.checks)
    ELSE TestMetrics(TestName(t), FAILED, [error |-> "test failed"])

\* test_postgresql_backup, test_redis_backup, test_s3_backup and
\* test_disaster_recovery_failover: the try body and the except clause
TestFunc(t, in) ==
    IF in.kind = "checks"
    THEN TestMetrics(TestName(t),
                     IF \A c \in Checks(t) : in.checks[c] THEN PASSED ELSE FAILED,
                     in.checks)
    ELSE TestMetrics(TestName(t), FAILED, [error |-> in.error])

\* an except clause of the loop that records the raising test as SKIPPED
FailedResultSkipped(t, e) == TestMetrics(KeyStr(t), SKIPPED, [error |-> e])

\* the except clause of the loop of run_all_tests
FailedResult(t, e) == TestMetrics(KeyStr(t), FAILED, [error |-> e])

\* one iteration of the loop of run_all_tests
LoopResult(t, in) ==
    IF in.kind = "escapes" THEN FailedResult(t, in.error) ELSE TestFunc(t, in)

\* a variant of the loop that breaks at the first FAILED result
NextIndexBreakOnFailure(i, result) ==
    IF result.result = FAILED THEN Cardinality(AllTests) + 1 ELSE i + 1

\* where the loop goes after the test at position i
NextIndex(i, result) == i + 1

NoReport == [total_tests |-> 0, passed |-> 0, failed |-> 0, skipped |-> 0]

Count(seq, r) == Cardinality({i \in 1..Len(seq) : seq[i].result = r})

\* report['summary'] of _generate_test_report
Summary(trs) ==
    [total_tests |-> Len(trs),
     passed |-> Count(trs, PASSED),
     failed |-> Count(trs, FAILED),
     skipped |-> Count(trs, SKIPPED)]

\* failed_tests of _send_notifications and of main
FailedTests(trs) == {i \in 1..Len(trs) : trs[i].result = FAILED}

\* a variant of main that exits with the number of failed tests
ExitStatusCount(trs) == Cardinality(FailedTests(trs))

\* the exit status main chooses after run_all_tests has returned
ExitStatus(trs) == IF FailedTests(trs) # {} THEN 1 ELSE 0

\* the framework's variables before main() has done anything, main() being at p
FrameworkAt(p) ==
    /\ pc = p
    /\ config = [environment |-> None]
    /\ idx = 0
    /\ results = <<>>
    /\ test_results = <<>>
    /\ inputs = <<>>
    /\ calls = [t \in AllTests |-> 0]
    /\ report = NoReport
    /\ notification = None
    /\ caught = {}
    /\ exit_code = -1

\* main: BackupTestingFramework(config_file) succeeds
Construct ==
    /\ pc = "main"
    /\ \E env \in Environments : config' = [environment |-> env]
    /\ test_results' = <<>>
    /\ idx' = 1
    /\ pc' = "run_all_tests"
    /\ UNCHANGED <<results, inputs, calls, report, notification, caught, exit_code>>
    /\ UNCHANGED <<mvars, rvars, lvars, pvars, uvars>>

\* main: the constructor raises (int() of a threshold, boto3.client) and
\* the except clause of main exits
ConstructFails ==
    /\ pc = "main"
    /\ exit_code' = 2
    /\ pc' = "exited"
    /\ UNCHANGED <<config, idx, results, test_results, inputs, calls, report,
                   notification, caught>>
    /\ UNCHANGED <<mvars, rvars, lvars, pvars, uvars>>

\* run_all_tests: one iteration of `for test_name, test_func in tests`
RunTest ==
    /\ pc = "run_all_tests"
    /\ idx <= Len(Tests(config.environment))
    /\ LET t == Tests(config.environment)[idx] IN
       \E in \in TestInputs(t) :
          LET r == LoopResult(t, in) IN
          /\ results' = [k \in DOMAIN results \cup {t} |->
                            IF k = t THEN r ELSE results[k]]
          /\ inputs' = [k \in DOMAIN inputs \cup {t} |->
                            IF k = t THEN in ELSE inputs[k]]
          /\ test_results' = Append(test_results, r)
          /\ calls' = [calls EXCEPT ![t] = @ + 1]
          /\ idx' = NextIndex(idx, r)
    /\ UNCHANGED <<pc, config, report, notification, caught, exit_code>>
    /\ UNCHANGED <<mvars, rvars, lvars, pvars, uvars>>

\* run_all_tests after the loop: _generate_test_report, _send_notifications
\* and the return.  Saving the report (S3, local file) and sending (SNS,
\* Slack) may raise; each is inside its own try/except.
FinishRun ==
    /\ pc = "run_all_tests"
    /\ idx > Len(Tests(config.environment))
    /\ report' = Summary(test_results)
    /\ notification' = IF FailedTests(test_results) = {} THEN "SUCCESS" ELSE "ALERT"
    /\ \E errs \in SUBSET {"report_save", "notification"} : caught' = errs
    /\ pc' = "returned"
    /\ UNCHANGED <<config, idx, results, test_results, inputs, calls, exit_code>>
    /\ UNCHANGED <<mvars, rvars, lvars, pvars, uvars>>

\* main after run_all_tests has returned: sys.exit(1) or sys.exit(0)
MainExit ==
    /\ pc = "returned"
    /\ exit_code' = ExitStatus(test_results)
    /\ pc' = "exited"
    /\ UNCHANGED <<config, idx, results, test_results, inputs, calls, report,
                   notification, caught>>
    /\ UNCHANGED <<mvars, rvars, lvars, pvars, uvars>>

(***************************************************************************)
(*                         lambda/rto-rpo-monitor.py                       *)
(***************************************************************************)

\* A duration in minutes as the probes return it: float('inf') or a number.
\* NotProbed is the value of a local that has not been assigned yet.
Inf == [kind |-> "inf", v |-> 0]
Minutes(n) == [kind |-> "minutes", v |-> n]
NotProbed == [kind |-> "unset", v |-> 0]
IsInf(x) == x.kind = "inf"

\* a local of the scorer that has not been assigned
Unset == <<>>

\* ---- exact arithmetic for the floats of the scorer ----
Abs(x) == IF x < 0 THEN -x ELSE x

RECURSIVE GCD(_, _)
GCD(a, b) == IF b = 0 THEN a ELSE GCD(b, a % b)

\* the rational n/d (d # 0) in lowest terms with a positive denominator
Frac(n, d) ==
    LET s == IF d < 0 THEN -1 ELSE 1
        g == GCD(Abs(n), Abs(d))
    IN  <<(s * n) \div g, (s * d) \div g>>

Num(n) == <<n, 1>>
Plus(a, b) == Frac(a[1] * b[2] + b[1] * a[2], a[2] * b[2])
Minus(a, b) == Frac(a[1] * b[2] - b[1] * a[2], a[2] * b[2])
Times(a, b) == Frac(a[1] * b[1], a[2] * b[2])
Less(a, b) == a[1] * b[2] < b[1] * a[2]
LessEq(a, b) == a[1] * b[2] <= b[1] * a[2]
\* Python's max(0, x)
Max0(x) == IF Less(x, Num(0)) THEN Num(0) ELSE x

\* ---- what the providers can answer ----

\* datetime.now(timezone.utc) of the invocation, in minutes
Now == 1500

\* at most this many recovery points / snapshots in one answer
MaxSnapshots == 2

\* CreationDate of the PostgreSQL recovery points
RecoveryPointTimes == {1410, 1440, 1470, 1500, 1530}

\* SnapshotCreateTime of the Redis snapshots
SnapshotTimes == {0, 1410, 1470, 1500, 1530}

\* CreationDate of the newest recovery point of the primary and of the DR vault
PrimaryTimes == {1379, 1380}
DrTimes == {1350, 1380, 1439, 1440, 1470, 1500}

\* RPO_THRESHOLD_MINUTES values of the deployment
Thresholds == {0, 60, 120}

RecoveryPointStatus == {"COMPLETED", "PARTIAL"}
SnapshotStatus == {"available", "creating"}

SeqsUpTo(S, n) == UNION {[1..k -> S] : k \in 0..n}

\* list_recovery_points_by_backup_vault(MaxResults=10): the list, or the call raises
RecoveryPointAnswers ==
    {[raises |-> FALSE, points |-> p] :
        p \in SeqsUpTo([Status : RecoveryPointStatus, CreationDate : RecoveryPointTimes],
                       MaxSnapshots)}
    \cup {[raises |-> TRUE, points |-> <<>>]}

\* describe_snapshots(MaxRecords=10): the list, or the call raises
SnapshotAnswers ==
    {[raises |-> FALSE, points |-> p] :
        p \in SeqsUpTo([SnapshotStatus : SnapshotStatus,
                        SnapshotCreateTime : SnapshotTimes], MaxSnapshots)}
    \cup {[raises |-> TRUE, points |-> <<>>]}

\* list_recovery_points_by_backup_vault(MaxResults=1) on the two vaults
ReplicationAnswers ==
    {[raises |-> FALSE, primary |-> p, dr |-> d] :
        p \in SeqsUpTo([CreationDate : PrimaryTimes], 1),
        d \in SeqsUpTo([CreationDate : DrTimes], 1)}
    \cup {[raises |-> TRUE, primary |-> <<>>, dr |-> <<>>]}

\* ---- the probes ----

\* the loop of monitor_postgresql_rpo: the position of the first COMPLETED
\* recovery point, 0 when latest_backup stays None
FirstCompleted(points) ==
    LET done == {i \in 1..Len(points) : points[i].Status = "COMPLETED"}
    IN  IF done = {} THEN 0
        ELSE CHOOSE i \in done : \A j \in done : i <= j

\* a variant of the probe that reports 0 minutes when no backup is COMPLETED
monitor_postgresql_rpo_zero(answer, now) ==
    IF answer.raises THEN Inf
    ELSE IF Len(answer.points) = 0 THEN Inf
    ELSE LET latest_backup == FirstCompleted(answer.points)
         IN  IF latest_backup = 0 THEN Minutes(0)
             ELSE Minutes(now - answer.points[latest_backup].CreationDate)

monitor_postgresql_rpo(answer, now) ==
    IF answer.raises THEN Inf
    ELSE IF Len(answer.points) = 0 THEN Inf
    ELSE LET latest_backup == FirstCompleted(answer.points)
         IN  IF latest_backup = 0 THEN Inf
             ELSE Minutes(now - answer.points[latest_backup].CreationDate)

\* the loop of monitor_redis_rpo: the position of the available snapshot with
\* the greatest SnapshotCreateTime (the first of them on a tie), 0 when
\* latest_snapshot stays None
LatestAvailable(snaps) ==
    LET ok == {i \in 1..Len(snaps) : snaps[i].SnapshotStatus = "available"}
    IN  IF ok = {} THEN 0
        ELSE CHOOSE i \in ok :
                \A j \in ok :
                   \/ snaps[j].SnapshotCreateTime < snaps[i].SnapshotCreateTime
                   \/ (snaps[j].SnapshotCreateTime = snaps[i].SnapshotCreateTime /\ i <= j)

monitor_redis_rpo(answer, now) ==
    IF answer.raises THEN Inf
    ELSE IF Len(answer.points) = 0 THEN Inf
    ELSE LET latest_snapshot == LatestAvailable(answer.points)
         IN  IF latest_snapshot = 0 THEN Inf
             ELSE Minutes(now - answer.points[latest_snapshot].SnapshotCreateTime)

\* status = 'HEALTHY' if replication_lag < 60 else 'LAGGING'
LagStatus(replication_lag) == IF replication_lag < 60 THEN "HEALTHY" ELSE "LAGGING"

\* replication_lag = (dr_time - primary_time).total_seconds() / 60
ReplicationLag(primary_time, dr_time) == dr_time - primary_time

monitor_cross_region_replication(answer) ==
    IF answer.raises THEN [status |-> "ERROR", lag_minutes |-> Inf]
    ELSE IF Len(answer.primary) = 0
         THEN [status |-> "NO_PRIMARY_BACKUPS", lag_minutes |-> Inf]
    ELSE IF Len(answer.dr) = 0
         THEN [status |-> "NO_DR_BACKUPS", lag_minutes |-> Inf]
    ELSE LET replication_lag ==
                ReplicationLag(answer.primary[1].CreationDate, answer.dr[1].CreationDate)
         IN  [status |-> LagStatus(replication_lag),
              lag_minutes |-> Minutes(replication_lag)]

\* ---- the scorer ----

\* a variant of the per-resource score without the floor max(0, .)
RpoScoreNoFloor(rpo, rpo_threshold) ==
    IF ~IsInf(rpo)
    THEN Minus(Num(100), Times(Frac(rpo.v, rpo_threshold), Num(100)))
    ELSE Num(0)

\* max(0, 100 - (rpo / rpo_threshold) * 100) if rpo != float('inf') else 0
\* (rpo_threshold # 0 or rpo = Inf)
RpoScore(rpo, rpo_threshold) ==
    IF ~IsInf(rpo)
    THEN Max0(Minus(Num(100), Times(Frac(rpo.v, rpo_threshold), Num(100))))
    ELSE Num(0)

\* the if / elif / else on replication_status['status']
ReplicationScore(status) ==
    IF status.status = "HEALTHY" THEN Num(100)
    ELSE IF status.status = "LAGGING"
         THEN Max0(Minus(Num(100), Times(Frac(status.lag_minutes.v, 60), Num(100))))
    ELSE Num(0)

\* a variant of the weighted average with the weights of PostgreSQL and Redis swapped
WeightedAverageSwapped(postgres_score, redis_score, replication_score) ==
    Plus(Plus(Times(postgres_score, Frac(3, 10)), Times(redis_score, Frac(4, 10))),
         Times(replication_score, Frac(3, 10)))

\* (postgres_score * 0.4) + (redis_score * 0.3) + (replication_score * 0.3)
WeightedAverage(postgres_score, redis_score, replication_score) ==
    Plus(Plus(Times(postgres_score, Frac(4, 10)), Times(redis_score, Frac(3, 10))),
         Times(replication_score, Frac(3, 10)))

\* rpo / rpo_threshold raises ZeroDivisionError
DivisionRaises(rpo, rpo_threshold) == ~IsInf(rpo) /\ rpo_threshold = 0

\* calculate_backup_health_score: the locals it reaches and what it returns
\* (0 from the except clause)
calculate_backup_health_score(pg_rpo, rd_rpo, status, rpo_threshold) ==
    IF DivisionRaises(pg_rpo, rpo_threshold)
    THEN [raised |-> TRUE, postgres_score |-> Unset, redis_score |-> Unset,
          replication_score |-> Unset, health_score |-> Num(0)]
    ELSE IF DivisionRaises(rd_rpo, rpo_threshold)
    THEN [raised |-> TRUE, postgres_score |-> RpoScore(pg_rpo, rpo_threshold),
          redis_score |-> Unset, replication_score |-> Unset, health_score |-> Num(0)]
    ELSE LET p == RpoScore(pg_rpo, rpo_threshold)
             r == RpoScore(rd_rpo, rpo_threshold)
             c == ReplicationScore(status)
         IN  [raised |-> FALSE, postgres_score |-> p, redis_score |-> r,
              replication_score |-> c, health_score |-> WeightedAverage(p, r, c)]

\* ---- the alert evaluation ----

\* x > y where x may be float('inf')
\* Exceeds with the comparison weakened to "at or above"
ExceedsOrEqual(x, y) == IsInf(x) \/ x.v >= y

Exceeds(x, y) == IsInf(x) \/ x.v > y

\* the Redis threshold of send_alerts_if_needed: 24 hours in minutes
redis_rpo_threshold == 24 * 60

\* Alerts with the low-score entry folded into an earlier entry when there is one
AlertsCoalesced(pg_rpo, rd_rpo, status, rpo_threshold, score) ==
    LET others ==
            (IF Exceeds(pg_rpo, rpo_threshold) THEN <<"postgres_rpo">> ELSE <<>>)
            \o (IF Exceeds(rd_rpo, redis_rpo_threshold) THEN <<"redis_rpo">> ELSE <<>>)
            \o (IF status.status \in {"NO_PRIMARY_BACKUPS", "NO_DR_BACKUPS", "ERROR"}
                THEN <<"replication_issue">>
                ELSE IF status.status = "LAGGING" /\ Exceeds(status.lag_minutes, 120)
                     THEN <<"replication_lag">>
                ELSE <<>>)
    IN  IF others = <<>> /\ Less(score, Num(80)) THEN <<"low_health_score">> ELSE others

\* Alerts with a lag alert for every LAGGING status
AlertsAnyLag(pg_rpo, rd_rpo, status, rpo_threshold, score) ==
    (IF Exceeds(pg_rpo, rpo_threshold) THEN <<"postgres_rpo">> ELSE <<>>)
    \o (IF Exceeds(rd_rpo, redis_rpo_threshold) THEN <<"redis_rpo">> ELSE <<>>)
    \o (IF status.status \in {"NO_PRIMARY_BACKUPS", "NO_DR_BACKUPS", "ERROR"}
        THEN <<"replication_issue">>
        ELSE IF status.status = "LAGGING" THEN <<"replication_lag">>
        ELSE <<>>)
    \o (IF Less(score, Num(80)) THEN <<"low_health_score">> ELSE <<>>)

\* the list `alerts` of send_alerts_if_needed
Alerts(pg_rpo, rd_rpo, status, rpo_threshold, score) ==
    (IF Exceeds(pg_rpo, rpo_threshold) THEN <<"postgres_rpo">> ELSE <<>>)
    \o (IF Exceeds(rd_rpo, redis_rpo_threshold) THEN <<"redis_rpo">> ELSE <<>>)
    \o (IF status.status \in {"NO_PRIMARY_BACKUPS", "NO_DR_BACKUPS", "ERROR"}
        THEN <<"replication_issue">>
        ELSE IF status.status = "LAGGING" /\ Exceeds(status.lag_minutes, 120)
             THEN <<"replication_lag">>
        ELSE <<>>)
    \o (IF Less(score, Num(80)) THEN <<"low_health_score">> ELSE <<>>)

NoAnswer == [raises |-> FALSE, points |-> <<>>]
NoScores == [raised |-> FALSE, postgres_score |-> Unset, redis_score |-> Unset,
             replication_score |-> Unset]

\* the monitor's variables before handler() has done anything, handler() being at p
MonitorAt(p) ==
    /\ mpc = p
    /\ rpo_threshold_minutes = 0
    /\ sns_topic_arn = None
    /\ response = NoAnswer
    /\ postgres_rpo = NotProbed
    /\ redis_rpo = NotProbed
    /\ replication_status = [status |-> None, lag_minutes |-> NotProbed]
    /\ scores = NoScores
    /\ health_score = Unset
    /\ alerts = <<>>
    /\ published = 0
    /\ handler_result = [statusCode |-> 0]

\* handler: the environment variables are read and the clients created
HandlerStart ==
    /\ mpc = "handler"
    /\ \E t \in Thresholds : rpo_threshold_minutes' = t
    /\ \E arn \in {None, "arn:aws:sns:alerts"} : sns_topic_arn' = arn
    /\ mpc' = "postgres"
    /\ UNCHANGED <<response, postgres_rpo, redis_rpo, replication_status, scores,
                   health_score, alerts, published, handler_result>>
    /\ UNCHANGED <<fvars, rvars, lvars, pvars, uvars>>

\* handler: int() of a threshold or boto3.client raises; the except clause returns
HandlerStartFails ==
    /\ mpc = "handler"
    /\ handler_result' = [statusCode |-> 500]
    /\ mpc' = "returned"
    /\ UNCHANGED <<rpo_threshold_minutes, sns_topic_arn, response, postgres_rpo,
                   redis_rpo, replication_status, scores, health_score, alerts,
                   published>>
    /\ UNCHANGED <<fvars, rvars, lvars, pvars, uvars>>

MonitorPostgresqlRpo ==
    /\ mpc = "postgres"
    /\ \E answer \in RecoveryPointAnswers :
          /\ response' = answer
          /\ postgres_rpo' = monitor_postgresql_rpo(answer, Now)
    /\ mpc' = "redis"
    /\ UNCHANGED <<rpo_threshold_minutes, sns_topic_arn, redis_rpo, replication_status,
                   scores, health_score, alerts, published, handler_result>>
    /\ UNCHANGED <<fvars, rvars, lvars, pvars, uvars>>

\* MonitorRedisRpo going straight to the scorer, the replication probe left out
MonitorRedisRpoThenScore ==
    /\ mpc = "redis"
    /\ \E answer \in SnapshotAnswers :
          /\ response' = answer
          /\ redis_rpo' = monitor_redis_rpo(answer, Now)
    /\ mpc' = "score"
    /\ UNCHANGED <<rpo_threshold_minutes, sns_topic_arn, postgres_rpo, replication_status,
                   scores, health_score, alerts, published, handler_result>>
    /\ UNCHANGED <<fvars, rvars, lvars, pvars, uvars>>

MonitorRedisRpo ==
    /\ mpc = "redis"
    /\ \E answer \in SnapshotAnswers :
          /\ response' = answer
          /\ redis_rpo' = monitor_redis_rpo(answer, Now)
    /\ mpc' = "replication"
    /\ UNCHANGED <<rpo_threshold_minutes, sns_topic_arn, postgres_rpo, replication_status,
                   scores, health_score, alerts, published, handler_result>>
    /\ UNCHANGED <<fvars, rvars, lvars, pvars, uvars>>

MonitorCrossRegionReplication ==
    /\ mpc = "replication"
    /\ \E answer \in ReplicationAnswers :
          /\ response' = answer
          /\ replication_status' = monitor_cross_region_replication(answer)
    /\ mpc' = "score"
    /\ UNCHANGED <<rpo_threshold_minutes, sns_topic_arn, postgres_rpo, redis_rpo,
                   scores, health_score, alerts, published, handler_result>>
    /\ UNCHANGED <<fvars, rvars, lvars, pvars, uvars>>

CalculateBackupHealthScore ==
    /\ mpc = "score"
    /\ LET s == calculate_backup_health_score(postgres_rpo, redis_rpo,
                                              replication_status, rpo_threshold_minutes)
       IN  /\ scores' = [raised |-> s.raised, postgres_score |-> s.postgres_score,
                         redis_score |-> s.redis_score,
                         replication_score |-> s.replication_score]
           /\ health_score' = s.health_score
    /\ mpc' = "publish"
    /\ UNCHANGED <<rpo_threshold_minutes, sns_topic_arn, response, postgres_rpo, redis_rpo,
                   replication_status, alerts, published, handler_result>>
    /\ UNCHANGED <<fvars, rvars, lvars, pvars, uvars>>

\* publish_metrics_to_cloudwatch: put_metric_data, inside its own try/except
PublishMetricsToCloudwatch ==
    /\ mpc = "publish"
    /\ mpc' = "alerts"
    /\ UNCHANGED <<rpo_threshold_minutes, sns_topic_arn, response, postgres_rpo, redis_rpo,
                   replication_status, scores, health_score, alerts, published,
                   handler_result>>
    /\ UNCHANGED <<fvars, rvars, lvars, pvars, uvars>>

\* SendAlertsIfNeeded publishing a message whether or not the alert list is empty
SendAlertsUnconditionally ==
    /\ mpc = "alerts"
    /\ sns_topic_arn # None
    /\ alerts' = Alerts(postgres_rpo, redis_rpo, replication_status,
                        rpo_threshold_minutes, health_score)
    /\ \E publish_raises \in BOOLEAN :
          published' = IF ~publish_raises THEN 1 ELSE 0
    /\ mpc' = "return"
    /\ UNCHANGED <<rpo_threshold_minutes, sns_topic_arn, response, postgres_rpo, redis_rpo,
                   replication_status, scores, health_score, handler_result>>
    /\ UNCHANGED <<fvars, rvars, lvars, pvars, uvars>>

\* handler: `if sns_topic_arn:` and send_alerts_if_needed; sns.publish may raise
\* inside the try/except of send_alerts_if_needed
SendAlertsIfNeeded ==
    /\ mpc = "alerts"
    /\ sns_topic_arn # None
    /\ alerts' = Alerts(postgres_rpo, redis_rpo, replication_status,
                        rpo_threshold_minutes, health_score)
    /\ \E publish_raises \in BOOLEAN :
          published' = IF alerts' # <<>> /\ ~publish_raises THEN 1 ELSE 0
    /\ mpc' = "return"
    /\ UNCHANGED <<rpo_threshold_minutes, sns_topic_arn, response, postgres_rpo, redis_rpo,
                   replication_status, scores, health_score, handler_result>>
    /\ UNCHANGED <<fvars, rvars, lvars, pvars, uvars>>

\* handler: no SNS topic configured, send_alerts_if_needed is not called
SkipAlerts ==
    /\ mpc = "alerts"
    /\ sns_topic_arn = None
    /\ mpc' = "return"
    /\ UNCHANGED <<rpo_threshold_minutes, sns_topic_arn, response, postgres_rpo, redis_rpo,
                   replication_status, scores, health_score, alerts, published,
                   handler_result>>
    /\ UNCHANGED <<fvars, rvars, lvars, pvars, uvars>>

\* handler: return {'statusCode': 200, ...}
HandlerReturn ==
    /\ mpc = "return"
    /\ handler_result' = [statusCode |-> 200]
    /\ mpc' = "returned"
    /\ UNCHANGED <<rpo_threshold_minutes, sns_topic_arn, response, postgres_rpo, redis_rpo,
                   replication_status, scores, health_score, alerts, published>>
    /\ UNCHANGED <<fvars, rvars, lvars, pvars, uvars>>

(***************************************************************************)
(*   backup-testing-framework.py : the two restore sub-checks,             *)
(*   _test_postgresql_pitr and _test_redis_snapshot_restore, and the       *)
(*   resource result their test function builds from them                  *)
(***************************************************************************)

\* max_wait_time of both wait-loops, in seconds
max_wait_time == 1800

\* the argument of time.sleep in both wait-loops, in seconds
SleepSeconds == 30

\* a status poll takes no time or this many seconds of the clock
MaxLatency == 15
Latencies == {0, MaxLatency}

\* the test function that calls the sub-check, and the key of its outcome in `details`
RestoreTest(sub) == IF sub = "pitr_test" THEN "POSTGRESQL" ELSE "REDIS"

\* the loop condition with the ceiling included in the waiting time
WaitLoopContinuesAtCeiling(seconds) == seconds <= max_wait_time

\* `while time.time() - start_time < max_wait_time`
WaitLoopContinues(seconds) == seconds < max_wait_time

\* the boolean each exit path of the two sub-checks returns
RestoreReturn(path) == path \in {"completed", "available"}

\* a finally clause whose failed deletion reaches the outer except clause
AfterFinallyPropagates(pending, delete_raises) == IF delete_raises THEN FALSE ELSE pending

\* _test_redis_snapshot_restore: the finally clause deletes inside
\* `try: ... except: pass`, so what the try body returned is returned
AfterFinally(pending, delete_raises) == pending

NoMetrics == TestMetrics(None, None, [error |-> None])

\* the sub-check's variables before it is called, the caller being at p
RestoreAt(p) ==
    /\ rpc = p
    /\ subcheck = None
    /\ restore_path = None
    /\ waited = 0
    /\ polls = 0
    /\ provisioned = FALSE
    /\ cleanup_calls = 0
    /\ cleanup_failed = FALSE
    /\ ret = FALSE
    /\ restore_in = [kind |-> None]
    /\ resource_result = NoMetrics

\* the sub-check returns `value` on exit path `path` without passing a finally clause
Return(path) ==
    /\ restore_path' = path
    /\ ret' = RestoreReturn(path)
    /\ rpc' = "done"

\* _test_postgresql_pitr: start_restore_job and its arguments; an exception
\* reaches the except clause before any job exists
PitrStartRestoreJob ==
    /\ rpc = "call"
    /\ subcheck' = "pitr_test"
    /\ \E raises \in BOOLEAN :
          IF raises
          THEN /\ Return("start_raised")
               /\ UNCHANGED provisioned
          ELSE /\ provisioned' = TRUE
               /\ rpc' = "pitr_loop"
               /\ UNCHANGED <<restore_path, ret>>
    /\ UNCHANGED <<waited, polls, cleanup_calls, cleanup_failed, restore_in, resource_result>>
    /\ UNCHANGED <<fvars, mvars, lvars, pvars, uvars>>

\* _test_postgresql_pitr: one turn of the wait-loop: describe_restore_job,
\* the two terminal statuses, time.sleep(30)
PitrPoll ==
    /\ rpc = "pitr_loop"
    /\ WaitLoopContinues(waited)
    /\ \E latency \in Latencies,
          answer \in {"RUNNING", "COMPLETED", "FAILED", "raises"} :
          CASE answer = "COMPLETED" ->
                  \* _cleanup_test_restore_instance catches its own exceptions
                  /\ \E failed \in BOOLEAN : cleanup_failed' = failed
                  /\ cleanup_calls' = cleanup_calls + 1
                  /\ Return("completed")
                  /\ waited' = waited + latency
                  /\ polls' = polls + 1
            [] answer = "FAILED" ->
                  /\ Return("failed")
                  /\ waited' = waited + latency
                  /\ polls' = polls + 1
                  /\ UNCHANGED <<cleanup_calls, cleanup_failed>>
            [] answer = "raises" ->
                  /\ Return("exception")
                  /\ waited' = waited + latency
                  /\ polls' = polls + 1
                  /\ UNCHANGED <<cleanup_calls, cleanup_failed>>
            [] OTHER ->
                  /\ waited' = waited + latency + SleepSeconds
                  /\ polls' = polls + 1
                  /\ UNCHANGED <<rpc, restore_path, ret, cleanup_calls, cleanup_failed>>
    /\ UNCHANGED <<subcheck, provisioned, restore_in, resource_result>>
    /\ UNCHANGED <<fvars, mvars, lvars, pvars, uvars>>

\* _test_postgresql_pitr: the loop condition is false, "PITR test timed out"
PitrTimeout ==
    /\ rpc = "pitr_loop"
    /\ ~WaitLoopContinues(waited)
    /\ Return("timeout")
    /\ UNCHANGED <<subcheck, waited, polls, provisioned, cleanup_calls, cleanup_failed,
                   restore_in, resource_result>>
    /\ UNCHANGED <<fvars, mvars, lvars, pvars, uvars>>

\* _test_redis_snapshot_restore: describe_snapshots; it raises, or there is
\* no snapshot, or the first snapshot is taken
RedisDescribeSnapshots ==
    /\ rpc = "call"
    /\ subcheck' = "restore_test"
    /\ \E answer \in {"raises", "empty", "snapshot"} :
          CASE answer = "raises" -> Return("snapshots_raised")
            [] answer = "empty" -> Return("no_snapshot")
            [] OTHER -> /\ rpc' = "redis_create"
                        /\ UNCHANGED <<restore_path, ret>>
    /\ UNCHANGED <<waited, polls, provisioned, cleanup_calls, cleanup_failed, restore_in,
                   resource_result>>
    /\ UNCHANGED <<fvars, mvars, lvars, pvars, uvars>>

\* _test_redis_snapshot_restore: the inner try is entered; the security group
\* lookup among the arguments raises, or create_replication_group is called
\* and raises, or it is called and returns
RedisCreateReplicationGroup ==
    /\ rpc = "redis_create"
    /\ \E answer \in {"lookup_raises", "create_raises", "created"} :
          CASE answer = "lookup_raises" ->
                  /\ restore_path' = "exception"
                  /\ ret' = RestoreReturn("exception")
                  /\ rpc' = "redis_finally"
                  /\ UNCHANGED provisioned
            [] answer = "create_raises" ->
                  /\ restore_path' = "create_raised"
                  /\ ret' = RestoreReturn("create_raised")
                  /\ rpc' = "redis_finally"
                  /\ provisioned' = TRUE
            [] OTHER ->
                  /\ provisioned' = TRUE
                  /\ rpc' = "redis_loop"
                  /\ UNCHANGED <<restore_path, ret>>
    /\ UNCHANGED <<subcheck, waited, polls, cleanup_calls, cleanup_failed, restore_in,
                   resource_result>>
    /\ UNCHANGED <<fvars, mvars, lvars, pvars, uvars>>

\* _test_redis_snapshot_restore: one turn of the wait-loop:
\* describe_replication_groups, 'available', time.sleep(30)
RedisPoll ==
    /\ rpc = "redis_loop"
    /\ WaitLoopContinues(waited)
    /\ \E latency \in Latencies, answer \in {"creating", "available", "raises"} :
          CASE answer = "available" ->
                  /\ restore_path' = "available"
                  /\ ret' = RestoreReturn("available")
                  /\ rpc' = "redis_finally"
                  /\ waited' = waited + latency
            [] answer = "raises" ->
                  /\ restore_path' = "exception"
                  /\ ret' = RestoreReturn("exception")
                  /\ rpc' = "redis_finally"
                  /\ waited' = waited + latency
            [] OTHER ->
                  /\ waited' = waited + latency + SleepSeconds
                  /\ UNCHANGED <<rpc, restore_path, ret>>
    /\ polls' = polls + 1
    /\ UNCHANGED <<subcheck, provisioned, cleanup_calls, cleanup_failed, restore_in,
                   resource_result>>
    /\ UNCHANGED <<fvars, mvars, lvars, pvars, uvars>>

\* _test_redis_snapshot_restore: the loop condition is false, "Redis restore
\* test timed out"
RedisTimeout ==
    /\ rpc = "redis_loop"
    /\ ~WaitLoopContinues(waited)
    /\ restore_path' = "timeout"
    /\ ret' = RestoreReturn("timeout")
    /\ rpc' = "redis_finally"
    /\ UNCHANGED <<subcheck, waited, polls, provisioned, cleanup_calls, cleanup_failed,
                   restore_in, resource_result>>
    /\ UNCHANGED <<fvars, mvars, lvars, pvars, uvars>>

\* _test_redis_snapshot_restore: the finally clause: delete_replication_group,
\* whose exception is swallowed, then the pending return or the except clause
RedisFinally ==
    /\ rpc = "redis_finally"
    /\ cleanup_calls' = cleanup_calls + 1
    /\ \E delete_raises \in BOOLEAN :
          /\ cleanup_failed' = delete_raises
          /\ ret' = AfterFinally(ret, delete_raises)
    /\ rpc' = "done"
    /\ UNCHANGED <<subcheck, restore_path, waited, polls, provisioned, restore_in,
                   resource_result>>
    /\ UNCHANGED <<fvars, mvars, lvars, pvars, uvars>>

\* test_postgresql_backup / test_redis_backup: the other sub-checks run and
\* the TestMetrics is built with the restore sub-check's outcome in `details`
RestoreTestReturns ==
    /\ rpc = "done"
    /\ \E in \in TestInputs(RestoreTest(subcheck)) :
          /\ in.kind = "checks"
          /\ in.checks[subcheck] = ret
          /\ restore_in' = in
          /\ resource_result' = TestFunc(RestoreTest(subcheck), in)
    /\ rpc' = "reported"
    /\ UNCHANGED <<subcheck, restore_path, waited, polls, provisioned, cleanup_calls,
                   cleanup_failed, ret>>
    /\ UNCHANGED <<fvars, mvars, lvars, pvars, uvars>>

(***************************************************************************)
(*        lambda/backup-test-lambda.py : handler() and its two tests       *)
(***************************************************************************)

\* CreationDate of the recovery points the Lambda sees: 24 h 1 min, 24 h, 0 old
LambdaPointTimes == {Now - 1441, Now - 1440, Now}

\* SnapshotCreateTime of the snapshots the Lambda sees: 25 h 1 min, 25 h, 0 old
LambdaSnapshotTimes == {Now - 1501, Now - 1500, Now}

\* BackupRetentionPeriod / SnapshotRetentionLimit; 0 also stands for a missing value
RetentionDays == {0, 6, 7}

\* str(e) of an exception a client call raises
ClientErrorText == "ClientError"

\* list_recovery_points_by_backup_vault(MaxResults=10) as the Lambda calls it
LambdaRecoveryPointAnswers ==
    {[raises |-> FALSE, points |-> p] :
        p \in SeqsUpTo([Status : RecoveryPointStatus, CreationDate : LambdaPointTimes],
                       MaxSnapshots)}
    \cup {[raises |-> TRUE, points |-> <<>>]}

\* describe_db_instances: the instance's BackupRetentionPeriod, or the call raises
DbInstanceAnswers ==
    {[raises |-> FALSE, retention |-> d] : d \in RetentionDays}
    \cup {[raises |-> TRUE, retention |-> 0]}

\* describe_replication_groups: no group, a group with its SnapshotRetentionLimit,
\* or the call raises
ReplicationGroupAnswers ==
    {[raises |-> FALSE, found |-> TRUE, retention |-> d] : d \in RetentionDays}
    \cup {[raises |-> FALSE, found |-> FALSE, retention |-> 0],
          [raises |-> TRUE, found |-> FALSE, retention |-> 0]}

\* describe_snapshots(MaxResults=10) as the Lambda calls it
LambdaSnapshotAnswers ==
    {[raises |-> FALSE, points |-> p] :
        p \in SeqsUpTo([SnapshotStatus : SnapshotStatus,
                        SnapshotCreateTime : LambdaSnapshotTimes], MaxSnapshots)}
    \cup {[raises |-> TRUE, points |-> <<>>]}

\* the dict a Lambda test returns: 'error' is None and 'details' is NoDetails
\* where the dict has no such key
NoDetails == [latest_time |-> -1, age_hours |-> Unset, retention_days |-> -1]
LambdaFailed(error) == [status |-> "FAILED", error |-> error, details |-> NoDetails]
LambdaPassed(time, age, retention) ==
    [status |-> "PASSED", error |-> None,
     details |-> [latest_time |-> time, age_hours |-> Frac(age, 60),
                  retention_days |-> retention]]
NoResult == [status |-> None, error |-> None, details |-> NoDetails]

\* Python's max(list, key=...): the position of the first element with the greatest key
\* a max() that takes the first element of the list whatever the keys are
ArgMaxFirst(keys, n) == 1

RECURSIVE ArgMax(_, _)
ArgMax(keys, n) ==
    IF n = 1 THEN 1
    ELSE LET m == ArgMax(keys, n - 1)
         IN  IF keys[n] > keys[m] THEN n ELSE m

\* test_postgresql_backups
test_postgresql_backups(list_answer, db_answer, now) ==
    IF list_answer.raises THEN LambdaFailed(ClientErrorText)
    ELSE IF list_answer.points = <<>>
    THEN LambdaFailed("No recovery points found in PostgreSQL backup vault")
    ELSE
      LET points == list_answer.points
          latest_backup == points[ArgMax([i \in 1..Len(points) |-> points[i].CreationDate],
                                         Len(points))]
          backup_age == now - latest_backup.CreationDate
      IN  IF latest_backup.Status # "COMPLETED"
          THEN LambdaFailed("Latest backup status is " \o latest_backup.Status)
          ELSE IF backup_age > 24 * 60
          THEN LambdaFailed("Latest backup exceeding 24-hour threshold")
          ELSE IF db_answer.raises
          THEN LambdaFailed("Failed to verify RDS backup configuration: " \o ClientErrorText)
          ELSE IF db_answer.retention = 0 \/ db_answer.retention < 7
          THEN LambdaFailed("RDS backup retention period is less than 7 days")
          ELSE LambdaPassed(latest_backup.CreationDate, backup_age, db_answer.retention)

\* test_redis_backups
test_redis_backups(group_answer, snapshots_answer, now) ==
    IF group_answer.raises THEN LambdaFailed(ClientErrorText)
    ELSE IF ~group_answer.found THEN LambdaFailed("Redis replication group not found")
    ELSE IF group_answer.retention < 7
    THEN LambdaFailed("Redis snapshot retention is less than 7 days")
    ELSE IF snapshots_answer.raises THEN LambdaFailed(ClientErrorText)
    ELSE IF snapshots_answer.points = <<>> THEN LambdaFailed("No Redis snapshots found")
    ELSE
      LET snaps == snapshots_answer.points
          latest_snapshot ==
              snaps[ArgMax([i \in 1..Len(snaps) |-> snaps[i].SnapshotCreateTime],
                           Len(snaps))]
          snapshot_age == now - latest_snapshot.SnapshotCreateTime
      IN  IF latest_snapshot.SnapshotStatus # "available"
          THEN LambdaFailed("Latest snapshot status is " \o latest_snapshot.SnapshotStatus)
          ELSE IF snapshot_age > 25 * 60
          THEN LambdaFailed("Latest snapshot exceeding 25-hour threshold")
          ELSE LambdaPassed(latest_snapshot.SnapshotCreateTime, snapshot_age,
                            group_answer.retention)

\* handler: passed_tests of the summary
PassedTests(trs) ==
    Cardinality({k \in {"postgresql", "redis"} : trs[k].status = "PASSED"})

\* the Lambda's variables before handler() has done anything, handler() being at p
LambdaAt(p) ==
    /\ lpc = p
    /\ lambda_sns_topic_arn = None
    /\ lambda_answers = [list |-> NoAnswer, config |-> NoAnswer]
    /\ lambda_test_results = [postgresql |-> NoResult, redis |-> NoResult]
    /\ lambda_notification = None
    /\ lambda_result = [statusCode |-> 0, passed |-> 0, total |-> 0]

\* handler: the environment is read and the clients are created
LambdaStart ==
    /\ lpc = "handler"
    /\ \E arn \in {None, "arn:aws:sns:alerts"} : lambda_sns_topic_arn' = arn
    /\ lpc' = "postgresql"
    /\ UNCHANGED <<lambda_answers, lambda_test_results, lambda_notification, lambda_result>>
    /\ UNCHANGED <<fvars, mvars, rvars, pvars, uvars>>

\* handler: boto3.client raises; the except clause sends the error
\* notification when a topic is configured and returns 500
LambdaStartFails ==
    /\ lpc = "handler"
    /\ \E arn \in {None, "arn:aws:sns:alerts"} :
          /\ lambda_sns_topic_arn' = arn
          /\ lambda_notification' = IF arn # None THEN "error" ELSE None
    /\ lambda_result' = [statusCode |-> 500, passed |-> 0, total |-> 0]
    /\ lpc' = "returned"
    /\ UNCHANGED <<lambda_answers, lambda_test_results>>
    /\ UNCHANGED <<fvars, mvars, rvars, pvars, uvars>>

\* handler: test_results['postgresql'] = test_postgresql_backups(...)
LambdaTestPostgresql ==
    /\ lpc = "postgresql"
    /\ \E la \in LambdaRecoveryPointAnswers, da \in DbInstanceAnswers :
          /\ lambda_answers' = [list |-> la, config |-> da]
          /\ lambda_test_results' =
                [lambda_test_results EXCEPT !.postgresql = test_postgresql_backups(la, da, Now)]
    /\ lpc' = "redis"
    /\ UNCHANGED <<lambda_sns_topic_arn, lambda_notification, lambda_result>>
    /\ UNCHANGED <<fvars, mvars, rvars, pvars, uvars>>

\* handler: test_results['redis'] = test_redis_backups(...)
LambdaTestRedis ==
    /\ lpc = "redis"
    /\ \E ga \in ReplicationGroupAnswers, sa \in LambdaSnapshotAnswers :
          /\ lambda_answers' = [list |-> sa, config |-> ga]
          /\ lambda_test_results' =
                [lambda_test_results EXCEPT !.redis = test_redis_backups(ga, sa, Now)]
    /\ lpc' = "summary"
    /\ UNCHANGED <<lambda_sns_topic_arn, lambda_notification, lambda_result>>
    /\ UNCHANGED <<fvars, mvars, rvars, pvars, uvars>>

\* handler: the summary, send_failure_notification when a test failed and a
\* topic is configured, publish_cloudwatch_metrics, and the 200 response
LambdaFinish ==
    /\ lpc = "summary"
    /\ LET total_tests == 2
           passed_tests == PassedTests(lambda_test_results)
           failed_tests == total_tests - passed_tests
       IN  /\ lambda_notification' =
                 IF failed_tests > 0 /\ lambda_sns_topic_arn # None THEN "failure" ELSE None
           /\ lambda_result' = [statusCode |-> 200, passed |-> passed_tests,
                                total |-> total_tests]
    /\ lpc' = "returned"
    /\ UNCHANGED <<lambda_sns_topic_arn, lambda_answers, lambda_test_results>>
    /\ UNCHANGED <<fvars, mvars, rvars, pvars, uvars>>

(***************************************************************************)
(*   backup-testing-framework.py : the RPO of a test result                *)
(*   (_calculate_postgresql_rpo, _calculate_redis_rpo) and the             *)
(*   rpo_rto_analysis of _generate_test_report                             *)
(***************************************************************************)

\* recovery_point_objective of a TestMetrics: a timedelta in minutes
\* (Minutes(n)), timedelta.max, or None
TimedeltaMax == [kind |-> "max", v |-> 0]
NoRpo == [kind |-> "none", v |-> 0]

\* list_recovery_points_by_backup_vault(MaxResults=1) and describe_recovery_point:
\* the latest recovery point, none, or a call raises
LatestRecoveryPointAnswers ==
    {[raises |-> FALSE, points |-> p] :
        p \in SeqsUpTo([Status : RecoveryPointStatus, CreationDate : RecoveryPointTimes], 1)}
    \cup {[raises |-> TRUE, points |-> <<>>]}

\* describe_snapshots(MaxRecords=1): the latest snapshot, none, or the call raises
LatestSnapshotAnswers ==
    {[raises |-> FALSE, points |-> p] :
        p \in SeqsUpTo([SnapshotStatus : SnapshotStatus,
                        SnapshotCreateTime : SnapshotTimes], 1)}
    \cup {[raises |-> TRUE, points |-> <<>>]}

\* _calculate_postgresql_rpo; _get_latest_postgresql_recovery_point raises
\* when there is no recovery point
_calculate_postgresql_rpo(answer, now) ==
    IF answer.raises \/ answer.points = <<>>
    THEN TimedeltaMax
    ELSE Minutes(now - answer.points[1].CreationDate)

\* _calculate_redis_rpo
_calculate_redis_rpo(answer, now) ==
    IF answer.raises \/ answer.points = <<>>
    THEN TimedeltaMax
    ELSE Minutes(now - answer.points[1].SnapshotCreateTime)

\* `if r.recovery_point_objective`: None and timedelta(0) are false
Truthy(rpo) == rpo.kind = "max" \/ (rpo.kind = "minutes" /\ rpo.v # 0)

\* rpo_values of _generate_test_report
RpoValues(objectives) == SelectSeq(objectives, Truthy)

RECURSIVE SumMinutes(_)
SumMinutes(values) ==
    IF values = <<>> THEN 0
    ELSE (IF Head(values).kind = "minutes" THEN Head(values).v ELSE 0)
         + SumMinutes(Tail(values))

\* report['rpo_rto_analysis'] without its two keys
NoAnalysis == [present |-> FALSE, max_rpo_minutes |-> NoRpo,
               avg_rpo_minutes |-> [sentinels |-> 0, minutes |-> 0, count |-> 0]]

\* max_rpo_minutes and avg_rpo_minutes of _generate_test_report.  The average
\* is (sentinels * timedelta.max + minutes) / count.
RpoAnalysis(objectives) ==
    LET rpo_values == RpoValues(objectives)
        at == {i \in 1..Len(rpo_values) : rpo_values[i].kind = "max"}
    IN  IF rpo_values = <<>> THEN NoAnalysis
        ELSE [present |-> TRUE,
              max_rpo_minutes |->
                  IF at # {} THEN TimedeltaMax
                  ELSE Minutes(CHOOSE m \in {rpo_values[i].v : i \in 1..Len(rpo_values)} :
                                  \A i \in 1..Len(rpo_values) : rpo_values[i].v <= m),
              avg_rpo_minutes |-> [sentinels |-> Cardinality(at),
                                   minutes |-> SumMinutes(rpo_values),
                                   count |-> Len(rpo_values)]]

\* the variables of the RPO computation before any test has run
ReportAt(p) ==
    /\ ppc = p
    /\ postgresql_answer = NoAnswer
    /\ redis_answer = NoAnswer
    /\ rpos = <<>>
    /\ rpo_rto_analysis = NoAnalysis

\* test_postgresql_backup: rpo = self._calculate_postgresql_rpo(), or the
\* test raised before and its TestMetrics has no RPO
TestPostgresqlRpo ==
    /\ ppc = "postgresql"
    /\ \E answer \in LatestRecoveryPointAnswers, test_raises \in BOOLEAN :
          /\ postgresql_answer' = answer
          /\ rpos' = Append(rpos, IF test_raises THEN NoRpo
                                  ELSE _calculate_postgresql_rpo(answer, Now))
    /\ ppc' = "redis"
    /\ UNCHANGED <<redis_answer, rpo_rto_analysis>>
    /\ UNCHANGED <<fvars, mvars, rvars, lvars, uvars>>

\* test_redis_backup: rpo = self._calculate_redis_rpo(), or the test raised
TestRedisRpo ==
    /\ ppc = "redis"
    /\ \E answer \in LatestSnapshotAnswers, test_raises \in BOOLEAN :
          /\ redis_answer' = answer
          /\ rpos' = Append(rpos, IF test_raises THEN NoRpo
                                  ELSE _calculate_redis_rpo(answer, Now))
    /\ ppc' = "s3"
    /\ UNCHANGED <<postgresql_answer, rpo_rto_analysis>>
    /\ UNCHANGED <<fvars, mvars, rvars, lvars, uvars>>

\* test_s3_backup: its TestMetrics carries no RPO
TestS3Rpo ==
    /\ ppc = "s3"
    /\ rpos' = Append(rpos, NoRpo)
    /\ ppc' = "report"
    /\ UNCHANGED <<postgresql_answer, redis_answer, rpo_rto_analysis>>
    /\ UNCHANGED <<fvars, mvars, rvars, lvars, uvars>>

\* _generate_test_report: the RTO/RPO analysis
GenerateRpoAnalysis ==
    /\ ppc = "report"
    /\ rpo_rto_analysis' = RpoAnalysis(rpos)
    /\ ppc' = "reported"
    /\ UNCHANGED <<postgresql_answer, redis_answer, rpos>>
    /\ UNCHANGED <<fvars, mvars, rvars, lvars, uvars>>

(***************************************************************************)
(*   backup-testing-framework.py : several run_all_tests calls on one      *)
(*   BackupTestingFramework instance                                       *)
(***************************************************************************)

\* at most this many run_all_tests calls on the instance
MaxRuns == 2

\* what a test of these runs meets: every sub-check passes, or the test raises
RerunInputs(t) ==
    {in \in TestInputs(t) :
        \/ (in.kind = "checks" /\ \A c \in Checks(t) : in.checks[c])
        \/ (in.kind = "error" /\ in.error = "AccessDenied")}

\* 'resource_weights' of the JSON config file: the key is missing (<<>>), or
\* a table of three weights that sums to 1.0, or one that sums to 0.9
FileResourceWeights ==
    {<<>>,
     <<Frac(4, 10), Frac(3, 10), Frac(3, 10)>>,
     <<Frac(4, 10), Frac(3, 10), Frac(2, 10)>>}

\* the instance's variables before __init__, the caller being at p
RerunAt(p) ==
    /\ upc = p
    /\ run_environment = None
    /\ run_resource_weights = <<>>
    /\ runs = 0
    /\ instance_test_results = <<>>
    /\ run_results = <<>>
    /\ run_idx = 0
    /\ run_report = NoReport
    /\ run_notification = None

\* BackupTestingFramework.__init__: _load_config updates the defaults with
\* whatever the config file holds; self.test_results = []
RerunConstruct ==
    /\ upc = "new"
    /\ \E e \in Environments : run_environment' = e
    /\ \E w \in FileResourceWeights : run_resource_weights' = w
    /\ instance_test_results' = <<>>
    /\ upc' = "ready"
    /\ UNCHANGED <<runs, run_results, run_idx, run_report, run_notification>>
    /\ UNCHANGED <<fvars, mvars, rvars, lvars, pvars>>

\* run_all_tests is called: `results = {}`; self.test_results is left as it is
RerunStart ==
    /\ upc = "ready"
    /\ runs < MaxRuns
    /\ runs' = runs + 1
    /\ run_results' = <<>>
    /\ run_idx' = 1
    /\ upc' = "running"
    /\ UNCHANGED <<run_environment, run_resource_weights, instance_test_results, run_report,
                   run_notification>>
    /\ UNCHANGED <<fvars, mvars, rvars, lvars, pvars>>

\* one iteration of the loop of run_all_tests
RerunTest ==
    /\ upc = "running"
    /\ run_idx <= Len(Tests(run_environment))
    /\ LET t == Tests(run_environment)[run_idx] IN
       \E in \in RerunInputs(t) :
          LET r == LoopResult(t, in) IN
          /\ run_results' = Append(run_results, r)
          /\ instance_test_results' = Append(instance_test_results, r)
          /\ run_idx' = NextIndex(run_idx, r)
    /\ UNCHANGED <<upc, run_environment, run_resource_weights, runs, run_report,
                   run_notification>>
    /\ UNCHANGED <<fvars, mvars, rvars, lvars, pvars>>

\* run_all_tests after the loop: _generate_test_report and _send_notifications
\* read self.test_results
RerunFinish ==
    /\ upc = "running"
    /\ run_idx > Len(Tests(run_environment))
    /\ run_report' = Summary(instance_test_results)
    /\ run_notification' =
          IF FailedTests(instance_test_results) = {} THEN "SUCCESS" ELSE "ALERT"
    /\ upc' = "ready"
    /\ UNCHANGED <<run_environment, run_resource_weights, runs, instance_test_results,
                   run_results, run_idx>>
    /\ UNCHANGED <<fvars, mvars, rvars, lvars, pvars>>

(***************************************************************************)
(*                             specifications                              *)
(***************************************************************************)

Init ==
    FrameworkAt("main") /\ MonitorAt("idle") /\ RestoreAt("idle") /\ LambdaAt("idle")
    /\ ReportAt("idle") /\ RerunAt("idle")

Next ==
    \/ Construct
    \/ ConstructFails
    \/ RunTest
    \/ FinishRun
    \/ MainExit

Spec == Init /\ [][Next]_vars

MonitorNext ==
    \/ HandlerStart
    \/ HandlerStartFails
    \/ MonitorPostgresqlRpo
    \/ MonitorRedisRpo
    \/ MonitorCrossRegionReplication
    \/ CalculateBackupHealthScore
    \/ PublishMetricsToCloudwatch
    \/ SendAlertsIfNeeded
    \/ SkipAlerts
    \/ HandlerReturn

MonitorInit ==
    MonitorAt("handler") /\ FrameworkAt("idle") /\ RestoreAt("idle") /\ LambdaAt("idle")
    /\ ReportAt("idle") /\ RerunAt("idle")

MonitorSpec == MonitorInit /\ [][MonitorNext]_vars

RestoreNext ==
    \/ PitrStartRestoreJob
    \/ PitrPoll
    \/ PitrTimeout
    \/ RedisDescribeSnapshots
    \/ RedisCreateReplicationGroup
    \/ RedisPoll
    \/ RedisTimeout
    \/ RedisFinally
    \/ RestoreTestReturns

RestoreInit ==
    RestoreAt("call") /\ FrameworkAt("idle") /\ MonitorAt("idle") /\ LambdaAt("idle")
    /\ ReportAt("idle") /\ RerunAt("idle")

\* the sub-check is sequential code: a step that can be taken is taken
RestoreSpec == RestoreInit /\ [][RestoreNext]_vars /\ WF_vars(RestoreNext)

LambdaNext ==
    \/ LambdaStart
    \/ LambdaStartFails
    \/ LambdaTestPostgresql
    \/ LambdaTestRedis
    \/ LambdaFinish

LambdaInit ==
    LambdaAt("handler") /\ FrameworkAt("idle") /\ MonitorAt("idle") /\ RestoreAt("idle")
    /\ ReportAt("idle") /\ RerunAt("idle")

LambdaSpec == LambdaInit /\ [][LambdaNext]_vars

ReportNext ==
    \/ TestPostgresqlRpo
    \/ TestRedisRpo
    \/ TestS3Rpo
    \/ GenerateRpoAnalysis

ReportInit ==
    ReportAt("postgresql") /\ FrameworkAt("idle") /\ MonitorAt("idle")
    /\ RestoreAt("idle") /\ LambdaAt("idle") /\ RerunAt("idle")

ReportSpec == ReportInit /\ [][ReportNext]_vars

RerunNext ==
    \/ RerunConstruct
    \/ RerunStart
    \/ RerunTest
    \/ RerunFinish

RerunInit ==
    RerunAt("new") /\ FrameworkAt("idle") /\ MonitorAt("idle")
    /\ RestoreAt("idle") /\ LambdaAt("idle") /\ ReportAt("idle")

RerunSpec == RerunInit /\ [][RerunNext]_vars

(***************************************************************************)
(*                    properties of run_all_tests and main                 *)
(***************************************************************************)

Configured == {Tests(config.environment)[i] : i \in 1..Len(Tests(config.environment))}

\* run_all_tests has returned to main
RunReturned == pc = "returned" \/ (pc = "exited" /\ config.environment # None)

SomeFailed == \E i \in 1..Len(test_results) : test_results[i].result = FAILED

AllPass(in) == in.kind = "checks" /\ \A c \in DOMAIN in.checks : in.checks[c]

\* C1: no test function is ever called twice; when run_all_tests has
\* returned, every configured test has been called exactly once (and no other
\* test), whatever the earlier results were, and the run is reported as failed
\* (ALERT notification, non-zero exit status) exactly when some result is FAILED.
C1_EveryTestRunsOnce ==
    /\ \A t \in AllTests : calls[t] <= 1
    /\ RunReturned =>
          /\ \A t \in AllTests : calls[t] = (IF t \in Configured THEN 1 ELSE 0)
          /\ Len(test_results) = Len(Tests(config.environment))
          /\ DOMAIN results = Configured
          /\ (notification = "ALERT") <=> SomeFailed
          /\ pc = "exited" => ((exit_code # 0) <=> SomeFailed)

\* a production run whose first test failed and whose last test ran and passed
C1_Witness ==
    /\ pc = "exited"
    /\ config.environment = "production"
    /\ test_results[1].result = FAILED
    /\ calls["disaster_recovery"] = 1
    /\ test_results[4].result = PASSED
    /\ exit_code = 1

\* the one test of the run that met an exception, all the others passing
OnlyRaiser(t) ==
    /\ t \in Configured
    /\ inputs[t].kind \in {"error", "escapes"}
    /\ \A u \in Configured \ {t} : AllPass(inputs[u])

ExitStatusByResults ==
    /\ (exit_code = 0) <=>
          /\ config.environment # None
          /\ \A i \in 1..Len(test_results) : test_results[i].result \in {PASSED, SKIPPED}
    /\ (exit_code = 1) <=> SomeFailed
    /\ (exit_code = 2) => (config.environment = None /\ test_results = <<>>)
    /\ exit_code \in {0, 1, 2}

\* C3 as stated: the exit status follows the results, 2 only when the
\* framework could not be constructed, and an error raised after the tests
\* have run (saving the report, sending the notification) never yields exit 0.
C3_AsStated ==
    pc = "exited" =>
        /\ ExitStatusByResults
        /\ caught # {} => exit_code # 0

\* C3 amended: the exit status follows the results, 2 only when the framework
\* could not be constructed; an error raised after the tests have run is
\* caught inside run_all_tests and leaves the exit status to the results:
\* 0 when no result is FAILED, 1 otherwise, never 2.
C3_ExitStatus ==
    pc = "exited" =>
        /\ ExitStatusByResults
        /\ caught # {} => exit_code = (IF SomeFailed THEN 1 ELSE 0)

\* every test passed, saving the report and notifying both raised, exit 0
C3_Witness ==
    /\ pc = "exited"
    /\ caught = {"report_save", "notification"}
    /\ Len(test_results) = 4
    /\ ~SomeFailed
    /\ exit_code = 0

(***************************************************************************)
(*                       properties of the RTO/RPO monitor                 *)
(***************************************************************************)

\* calculate_backup_health_score has returned
Scored == mpc \in {"publish", "alerts", "return"} \/ (mpc = "returned" /\ handler_result.statusCode = 200)

NoneCompleted(points) == \A i \in 1..Len(points) : points[i].Status # "COMPLETED"
NoneAvailable(points) == \A i \in 1..Len(points) : points[i].SnapshotStatus # "available"

\* C4: a PostgreSQL or Redis probe that finds no snapshot, no
\* completed/available snapshot, or raises, returns float('inf') and the
\* handler goes on; the per-resource score computed from an infinite RPO is 0
\* for every threshold (0 included).
C4_MissingIsInfAndScoresZero ==
    /\ mpc = "redis" =>
          ((response.raises \/ NoneCompleted(response.points)) => postgres_rpo = Inf)
    /\ mpc = "replication" =>
          ((response.raises \/ NoneAvailable(response.points)) => redis_rpo = Inf)
    /\ Scored =>
          /\ IsInf(postgres_rpo) => scores.postgres_score = Num(0)
          /\ (IsInf(redis_rpo) /\ scores.redis_score # Unset) => scores.redis_score = Num(0)
          /\ (IsInf(postgres_rpo) /\ IsInf(redis_rpo)) =>
                (~scores.raised /\ scores.redis_score = Num(0))

\* the answer held recovery points, none of them COMPLETED
C4_Witness ==
    /\ mpc = "redis"
    /\ Len(response.points) = 2
    /\ NoneCompleted(response.points)
    /\ postgres_rpo = Inf

\* the score max(0, 100 - (rpo / threshold) * 100) of a finite rpo >= 0, threshold > 0
IsRpoScore(score, rpo, threshold) ==
    /\ LessEq(Num(0), score)
    /\ rpo.v = 0 => score = Num(100)
    /\ rpo.v >= threshold => score = Num(0)
    /\ rpo.v < threshold =>
          score[1] * threshold = (100 * threshold - 100 * rpo.v) * score[2]

\* C5: for a finite RPO >= 0 and a threshold > 0 the per-resource score is
\* max(0, 100 - (rpo / threshold) * 100): 100 at RPO 0, 0 from the threshold
\* on, never negative.
C5_RpoScore ==
    (Scored /\ rpo_threshold_minutes > 0) =>
        /\ ~scores.raised
        /\ (postgres_rpo.kind = "minutes" /\ postgres_rpo.v >= 0) =>
              IsRpoScore(scores.postgres_score, postgres_rpo, rpo_threshold_minutes)
        /\ (redis_rpo.kind = "minutes" /\ redis_rpo.v >= 0) =>
              IsRpoScore(scores.redis_score, redis_rpo, rpo_threshold_minutes)

\* threshold 60: RPO 30 scores 50, RPO 90 scores 0
C5_Witness ==
    /\ Scored
    /\ rpo_threshold_minutes = 60
    /\ postgres_rpo = Minutes(30)
    /\ scores.postgres_score = Num(50)
    /\ redis_rpo = Minutes(90)
    /\ scores.redis_score = Num(0)

\* C6: the health score returned by calculate_backup_health_score lies in [0, 100].
C6_HealthScoreInRange ==
    Scored => (LessEq(Num(0), health_score) /\ LessEq(health_score, Num(100)))

\* C7: the health score is 0.4 * postgres + 0.3 * redis + 0.3 * replication;
\* per-resource scores 100, 0 and 50 (the 0 and the 50 on the two 0.3 weights)
\* give 55.
C7_WeightedSum ==
    (Scored /\ ~scores.raised) =>
        LET p == scores.postgres_score
            r == scores.redis_score
            c == scores.replication_score
            h == health_score
        IN  /\ 10 * h[1] * (p[2] * r[2] * c[2])
                 = h[2] * (4 * p[1] * r[2] * c[2] + 3 * r[1] * p[2] * c[2]
                           + 3 * c[1] * p[2] * r[2])
            /\ (p = Num(100) /\ {r, c} = {Num(0), Num(50)}) => h = Num(55)

\* PostgreSQL 100, Redis 50, replication 0: health score 55
C7_Witness ==
    /\ Scored
    /\ ~scores.raised
    /\ scores.postgres_score = Num(100)
    /\ scores.redis_score = Num(50)
    /\ scores.replication_score = Num(0)
    /\ health_score = Num(55)

\* monitor_cross_region_replication has returned a measured lag
LagMeasured == mpc = "score" /\ replication_status.lag_minutes.kind = "minutes"

\* C8: the replication status is HEALTHY for every lag <= 60 minutes and
\* LAGGING for every lag > 60 minutes.
C8_LagBoundary ==
    LagMeasured =>
        /\ replication_status.lag_minutes.v <= 60 => replication_status.status = "HEALTHY"
        /\ replication_status.lag_minutes.v > 60 => replication_status.status = "LAGGING"

\* C9: the replication score is 100 up to a lag of 60 minutes, falls linearly
\* from 100 to 0 between 60 and 120 minutes, and is 0 for NO_PRIMARY_BACKUPS,
\* NO_DR_BACKUPS and ERROR.
C9_ReplicationScore ==
    (Scored /\ ~scores.raised) =>
        LET lag == replication_status.lag_minutes
            c == scores.replication_score
        IN  /\ (lag.kind = "minutes" /\ lag.v <= 60) => c = Num(100)
            /\ (lag.kind = "minutes" /\ lag.v > 60 /\ lag.v < 120) =>
                  /\ Less(Num(0), c) /\ Less(c, Num(100))
                  /\ c = Minus(Num(100), Times(Frac(lag.v - 60, 60), Num(100)))
            /\ replication_status.status \in {"NO_PRIMARY_BACKUPS", "NO_DR_BACKUPS", "ERROR"}
                  => c = Num(0)

\* C10: when the DR recovery point is older than the primary one the
\* reported lag is 0, not negative, and the result is not an ordinary HEALTHY.
C10_NegativeLagClamped ==
    (mpc = "score" /\ ~response.raises /\ Len(response.primary) = 1 /\ Len(response.dr) = 1
        /\ response.dr[1].CreationDate < response.primary[1].CreationDate) =>
        /\ replication_status.lag_minutes = Minutes(0)
        /\ replication_status.status # "HEALTHY"

\* send_alerts_if_needed has been called and has returned
AlertsEvaluated ==
    /\ sns_topic_arn # None
    /\ mpc = "return" \/ (mpc = "returned" /\ handler_result.statusCode = 200)

\* how many entries of the alert list are of this kind
Entries(kind) == Cardinality({i \in 1..Len(alerts) : alerts[i] = kind})

\* a probed RPO is above a limit in minutes: infinity is above every limit
Above(rpo, limit) == rpo.kind = "inf" \/ (rpo.kind = "minutes" /\ rpo.v > limit)

\* C11 as stated: for PostgreSQL and Redis alike, exactly one RPO-breach alert
\* for the resource when its RPO exceeds rpo_threshold_minutes, none when the
\* RPO is at or below that threshold.
C11_AsStated ==
    AlertsEvaluated =>
        /\ Entries("postgres_rpo") = (IF Above(postgres_rpo, rpo_threshold_minutes) THEN 1 ELSE 0)
        /\ Entries("redis_rpo") = (IF Above(redis_rpo, rpo_threshold_minutes) THEN 1 ELSE 0)

\* C11 amended: exactly one PostgreSQL RPO-breach alert when the PostgreSQL RPO
\* exceeds rpo_threshold_minutes and none at or below it; exactly one Redis
\* RPO-breach alert when the Redis RPO exceeds 1440 minutes (24 hours),
\* whatever rpo_threshold_minutes is, and none at or below 1440 minutes.
C11_RpoAlerts ==
    AlertsEvaluated =>
        /\ Entries("postgres_rpo") = (IF Above(postgres_rpo, rpo_threshold_minutes) THEN 1 ELSE 0)
        /\ Entries("redis_rpo") = (IF Above(redis_rpo, 1440) THEN 1 ELSE 0)

\* threshold 60: PostgreSQL at 90 minutes alerts once, Redis at 90 minutes does not
C11_Witness ==
    /\ AlertsEvaluated
    /\ rpo_threshold_minutes = 60
    /\ postgres_rpo = Minutes(90)
    /\ redis_rpo = Minutes(90)
    /\ Entries("postgres_rpo") = 1
    /\ Entries("redis_rpo") = 0

\* C12: the alert list holds a low-health-score entry exactly when the health
\* score is strictly below 80, and that entry comes in addition to every RPO
\* and replication entry of the same evaluation: none of them is dropped or
\* replaced because of it.
C12_LowScoreAlert ==
    AlertsEvaluated =>
        /\ Entries("low_health_score") = (IF health_score[1] < 80 * health_score[2] THEN 1 ELSE 0)
        /\ Above(postgres_rpo, rpo_threshold_minutes) => Entries("postgres_rpo") = 1
        /\ replication_status.status \in {"NO_PRIMARY_BACKUPS", "NO_DR_BACKUPS", "ERROR"}
              => Entries("replication_issue") = 1
        /\ Len(alerts) = Entries("postgres_rpo") + Entries("redis_rpo")
                         + Entries("replication_issue") + Entries("replication_lag")
                         + Entries("low_health_score")

\* a PostgreSQL RPO alert, a replication alert and the low-score alert together
C12_Witness ==
    /\ AlertsEvaluated
    /\ alerts = <<"postgres_rpo", "replication_issue", "low_health_score">>
    /\ Less(health_score, Num(80))

\* C13 as stated: exactly one replication alert whenever the status is a hard
\* failure or LAGGING, none when it is HEALTHY.
C13_AsStated ==
    AlertsEvaluated =>
        Entries("replication_issue") + Entries("replication_lag")
            = (IF replication_status.status \in
                    {"NO_PRIMARY_BACKUPS", "NO_DR_BACKUPS", "ERROR", "LAGGING"}
               THEN 1 ELSE 0)

\* C13 amended: exactly one replication alert when the status is a hard
\* failure, or when it is LAGGING with a lag above 120 minutes; none when the
\* status is HEALTHY, and none when it is LAGGING with a lag of at most 120.
C13_ReplicationAlert ==
    AlertsEvaluated =>
        /\ Entries("replication_issue")
              = (IF replication_status.status \in {"NO_PRIMARY_BACKUPS", "NO_DR_BACKUPS", "ERROR"}
                 THEN 1 ELSE 0)
        /\ Entries("replication_lag")
              = (IF replication_status.status = "LAGGING"
                    /\ Above(replication_status.lag_minutes, 120)
                 THEN 1 ELSE 0)

\* a lag of exactly 120 minutes: LAGGING, and no replication alert
C13_Witness ==
    /\ AlertsEvaluated
    /\ replication_status.status = "LAGGING"
    /\ replication_status.lag_minutes = Minutes(120)
    /\ Entries("replication_issue") + Entries("replication_lag") = 0

\* every probe of the handler has returned its result
AllProbed ==
    /\ postgres_rpo.kind \in {"minutes", "inf"}
    /\ redis_rpo.kind \in {"minutes", "inf"}
    /\ replication_status.status \in
          {"HEALTHY", "LAGGING", "NO_PRIMARY_BACKUPS", "NO_DR_BACKUPS", "ERROR"}

\* C20: in one run of the handler a health score exists only once the
\* PostgreSQL probe, the Redis probe and the replication probe have all
\* returned (a measurement or the infinity/ERROR value); the handler is past
\* the metrics publication, has evaluated alerts or has returned 200 only with
\* a score computed from all three results.
C20_ScoreAfterAllProbes ==
    /\ health_score # Unset => AllProbed
    /\ scores # NoScores => AllProbed
    /\ mpc \in {"publish", "alerts", "return"} => (health_score # Unset /\ AllProbed)
    /\ (alerts # <<>> \/ published > 0) => (health_score # Unset /\ AllProbed)
    /\ handler_result.statusCode = 200 => (health_score # Unset /\ AllProbed)

\* a returned run whose probes gave infinity, a measurement and ERROR
C20_Witness ==
    /\ mpc = "returned"
    /\ handler_result.statusCode = 200
    /\ postgres_rpo = Inf
    /\ redis_rpo = Minutes(30)
    /\ replication_status.status = "ERROR"
    /\ health_score # Unset
    /\ published = 1

(***************************************************************************)
(*              properties of the resource tests and sub-checks            *)
(***************************************************************************)

\* test_postgresql_backups of the Lambda has just returned
LambdaPostgresqlTested == lpc = "redis"

\* the recovery point test_postgresql_backups looks at
LatestPoint(points) ==
    CHOOSE q \in {points[i] : i \in 1..Len(points)} :
        \A i \in 1..Len(points) : points[i].CreationDate <= q.CreationDate

\* the facets of the PostgreSQL backup that are wrong in the provider's answers
FailingFacets(answers) ==
    {f \in {"recovery_points", "age", "retention"} :
        CASE f = "recovery_points" -> answers.list.points = <<>>
          [] f = "age" ->
                /\ answers.list.points # <<>>
                /\ Now - LatestPoint(answers.list.points).CreationDate > 24 * 60
          [] f = "retention" -> answers.config.raises \/ answers.config.retention < 7}

\* the facets the result of test_postgresql_backups shows as failed
ShownFacets(result) ==
    {f \in {"recovery_points", "age", "retention"} :
        CASE f = "recovery_points" ->
                result.error = "No recovery points found in PostgreSQL backup vault"
          [] f = "age" -> result.error = "Latest backup exceeding 24-hour threshold"
          [] f = "retention" ->
                result.error \in {"RDS backup retention period is less than 7 days",
                                  "Failed to verify RDS backup configuration: ClientError"}}

\* C14: every sub-check of a resource test is evaluated even after an earlier
\* one has failed, and the result shows every failing sub-check; here for the
\* Lambda's test_postgresql_backups: every facet that is wrong in the
\* provider's answers is shown as failed in the returned result.
C14_EverySubCheckRecorded ==
    (LambdaPostgresqlTested /\ ~lambda_answers.list.raises) =>
        FailingFacets(lambda_answers) \subseteq ShownFacets(lambda_test_results.postgresql)

\* C15: outside production the DR failover test is inapplicable; its outcome
\* is a result SKIPPED among the run's results, and the report's skipped
\* count is at least 1.
C15_InapplicableIsSkipped ==
    (RunReturned /\ config.environment = "staging") =>
        /\ \E i \in 1..Len(test_results) : test_results[i].result = SKIPPED
        /\ report.skipped >= 1

\* C16: each wait-loop polls at most 60 times, every poll but the last being
\* followed by a sleep of 30 seconds; it leaves by timeout only once 1800
\* seconds have elapsed, after exactly 60 polls when only the sleeps advanced
\* the clock, and the sub-check then returns False; and the sub-check always
\* returns.
C16_WaitLoopsTerminate ==
    /\ [](/\ polls <= 60
          /\ rpc \in {"pitr_loop", "redis_loop"} =>
                (waited >= 30 * polls /\ waited <= (30 + MaxLatency) * polls)
          /\ restore_path = "timeout" =>
                /\ waited >= 1800
                /\ waited < 1800 + 30 + MaxLatency
                /\ waited = 30 * polls => polls = 60
                /\ ret = FALSE)
    /\ <>(rpc = "reported")

\* a wait-loop that timed out after 60 polls, 1800 seconds and returned False
C16_Witness ==
    /\ rpc = "reported"
    /\ restore_path = "timeout"
    /\ polls = 60
    /\ waited = 1800
    /\ ret = FALSE
    /\ resource_result.result = FAILED

\* C17: when the wait-loop timed out the resource result is FAILED and differs
\* from the result the same test gives when the restore job itself reports
\* failure (or when polling raises).
C17_TimeoutDistinguishable ==
    (rpc = "reported" /\ restore_path = "timeout") =>
        /\ resource_result.result = FAILED
        /\ \A p \in {"failed", "exception"} :
              resource_result #
                  TestFunc(RestoreTest(subcheck),
                           [restore_in EXCEPT !.checks[subcheck] = RestoreReturn(p)])

\* C18: when _test_postgresql_pitr has returned after starting a restore job,
\* _cleanup_test_restore_instance has been called, whatever the exit path.
C18_PitrCleanupOnEveryExit ==
    (subcheck = "pitr_test" /\ rpc \in {"done", "reported"} /\ provisioned) =>
        cleanup_calls = 1

\* C19: in _test_redis_snapshot_restore the deletion of the temporary cluster
\* is never attempted twice; when the function has returned after attempting
\* the creation, the deletion has been attempted exactly once, on each of the
\* exit paths, and the function has returned True exactly when the cluster
\* became available, whether or not the deletion failed.
C19_RedisDeletionOnEveryExit ==
    subcheck = "restore_test" =>
        /\ cleanup_calls <= 1
        /\ (rpc \in {"done", "reported"} /\ provisioned) =>
              /\ cleanup_calls = 1
              /\ restore_path \in {"available", "timeout", "create_raised", "exception"}
              /\ ret = (restore_path = "available")

\* the cluster became available, its deletion failed, the sub-check returned True
C19_Witness ==
    /\ subcheck = "restore_test"
    /\ rpc = "reported"
    /\ provisioned
    /\ restore_path = "available"
    /\ cleanup_calls = 1
    /\ cleanup_failed
    /\ ret = TRUE

(***************************************************************************)
(*                 further properties of the RTO/RPO monitor               *)
(***************************************************************************)

\* the handler has returned
MonitorReturned == mpc = "returned"

\* C26: when the scoring step throws, the handler does not report a completed
\* run: its response is not statusCode 200.
C26_ScoringErrorFailsRun ==
    (MonitorReturned /\ scores.raised) => handler_result.statusCode # 200

\* the least element of a non-empty set of numbers
Least(S) == CHOOSE a \in S : \A b \in S : a <= b

\* the ages, at the monitor's clock, of the completed recovery points of a list
CompletedAges(points) ==
    {Now - points[i].CreationDate : i \in {j \in 1..Len(points) : points[j].Status = "COMPLETED"}}

\* the ages, at the monitor's clock, of the available snapshots of a list
AvailableAges(points) ==
    {Now - points[i].SnapshotCreateTime :
        i \in {j \in 1..Len(points) : points[j].SnapshotStatus = "available"}}

\* C27: for every list the provider returns, in any order, the RPO a probe
\* reports is the least age over the completed (available) snapshots of the
\* list, and infinity when there is none.
C27_MostRecentCompleted ==
    /\ (mpc = "redis" /\ ~response.raises) =>
          postgres_rpo = (IF CompletedAges(response.points) = {} THEN Inf
                          ELSE Minutes(Least(CompletedAges(response.points))))
    /\ (mpc = "replication" /\ ~response.raises) =>
          redis_rpo = (IF AvailableAges(response.points) = {} THEN Inf
                       ELSE Minutes(Least(AvailableAges(response.points))))

\* C29: whenever the replication status is not HEALTHY the replication score
\* is 0, the health score is at most 70, and the alert list, once evaluated,
\* holds the low-health-score alert.
C29_UnhealthyReplicationAlerts ==
    (Scored /\ replication_status.status # "HEALTHY") =>
        /\ ~scores.raised => scores.replication_score = Num(0)
        /\ health_score[1] <= 70 * health_score[2]
        /\ AlertsEvaluated => Entries("low_health_score") = 1

\* one of the alert conditions of send_alerts_if_needed holds
AlertCondition ==
    \/ Above(postgres_rpo, rpo_threshold_minutes)
    \/ Above(redis_rpo, 1440)
    \/ replication_status.status \in {"NO_PRIMARY_BACKUPS", "NO_DR_BACKUPS", "ERROR"}
    \/ (replication_status.status = "LAGGING" /\ Above(replication_status.lag_minutes, 120))
    \/ health_score[1] < 80 * health_score[2]

\* the handler is past the point where it may call send_alerts_if_needed
PastAlerts == mpc = "return" \/ (mpc = "returned" /\ handler_result.statusCode = 200)

\* C28 as stated: one notification is published if and only if a topic is
\* configured and at least one alert condition holds.
C28_AsStated ==
    PastAlerts => ((published = 1) <=> (sns_topic_arn # None /\ AlertCondition))

\* C28 amended: at most one notification is published, and only when a topic
\* is configured and an alert condition holds; nothing is published when no
\* condition holds or no topic is configured; with a topic configured the
\* alert list is non-empty, and the one publish call is made, exactly when a
\* condition holds (a publish call that raises is swallowed and publishes
\* nothing).
C28_PublishOnlyOnBreach ==
    /\ published \in {0, 1}
    /\ published = 1 => (sns_topic_arn # None /\ PastAlerts /\ AlertCondition)
    /\ PastAlerts =>
          /\ sns_topic_arn = None => (alerts = <<>> /\ published = 0)
          /\ ~AlertCondition => (alerts = <<>> /\ published = 0)
          /\ (sns_topic_arn # None /\ AlertCondition) => alerts # <<>>

\* a silent run with a topic configured and nothing breached
C28_Witness ==
    /\ MonitorReturned
    /\ handler_result.statusCode = 200
    /\ sns_topic_arn # None
    /\ ~AlertCondition
    /\ health_score = Num(100)
    /\ published = 0

(***************************************************************************)
(*                     properties of the backup-test Lambda                *)
(***************************************************************************)

\* the recovery points of a list with the greatest creation time
Newest(points) ==
    {points[i] : i \in {j \in 1..Len(points) :
        \A k \in 1..Len(points) : points[k].CreationDate <= points[j].CreationDate}}

\* a recovery point that is COMPLETED and at most 24 hours old
RecentAndCompleted(q) == q.Status = "COMPLETED" /\ Now - q.CreationDate <= 24 * 60

\* C30: test_postgresql_backups always returns PASSED or FAILED; it returns
\* PASSED only if the vault has a recovery point, a recovery point with the
\* greatest creation time is COMPLETED and at most 24 hours old, and the
\* retention period is at least 7 days, and it does return PASSED when that
\* holds of every recovery point with the greatest creation time; a FAILED
\* result carries a non-empty error text; a newest recovery point that is not
\* COMPLETED fails the test whatever older recovery points there are.
C30_PostgresqlPassedIff ==
    LambdaPostgresqlTested =>
        LET list == lambda_answers.list
            db == lambda_answers.config
            result == lambda_test_results.postgresql
            configured == ~list.raises /\ list.points # <<>> /\ ~db.raises /\ db.retention >= 7
        IN  /\ result.status \in {"PASSED", "FAILED"}
            /\ result.status = "PASSED" =>
                  (configured /\ \E q \in Newest(list.points) : RecentAndCompleted(q))
            /\ (configured /\ \A q \in Newest(list.points) : RecentAndCompleted(q))
                  => result.status = "PASSED"
            /\ result.status = "FAILED" => result.error \notin {None, ""}
            /\ result.status = "PASSED" => result.error = None

\* an older COMPLETED recovery point does not rescue a newest PARTIAL one
C30_Witness ==
    /\ LambdaPostgresqlTested
    /\ lambda_answers.list.points =
          <<[Status |-> "COMPLETED", CreationDate |-> Now - 1440],
            [Status |-> "PARTIAL", CreationDate |-> Now]>>
    /\ lambda_answers.config = [raises |-> FALSE, retention |-> 7]
    /\ lambda_test_results.postgresql.status = "FAILED"
    /\ lambda_test_results.postgresql.error = "Latest backup status is PARTIAL"

(***************************************************************************)
(*                further properties of run_all_tests and main             *)
(***************************************************************************)

\* every configured test of the run met a failing sub-check or an exception
EveryTestFails ==
    /\ config.environment # None
    /\ DOMAIN inputs = Configured
    /\ \A t \in Configured : ~AllPass(inputs[t])

\* C22: a run in which every resource test fails, by a failing sub-check or
\* by raising, returns with one FAILED result per configured test in the
\* report (none passed, none missing) and an ALERT notification, and the
\* process exits with status 1, also when saving the report raised.
C22_AllFailedStillReports ==
    (RunReturned /\ EveryTestFails) =>
        /\ Len(test_results) = Len(Tests(config.environment))
        /\ \A i \in 1..Len(test_results) : test_results[i].result = FAILED
        /\ \A t \in Configured : results[t].result = FAILED
        /\ report.total_tests = Len(Tests(config.environment))
        /\ report.failed = report.total_tests
        /\ report.passed = 0
        /\ notification = "ALERT"
        /\ pc = "exited" => exit_code = 1

\* all four production tests failed, two of them by raising, the report could
\* not be saved, and the process exited with status 1
C22_Witness ==
    /\ pc = "exited"
    /\ config.environment = "production"
    /\ EveryTestFails
    /\ inputs["POSTGRESQL"].kind = "escapes"
    /\ inputs["REDIS"].kind = "error"
    /\ inputs["S3"].kind = "checks"
    /\ "report_save" \in caught
    /\ report.failed = 4
    /\ exit_code = 1

(***************************************************************************)
(*            properties of the recorded RPO and of repeated runs          *)
(***************************************************************************)

\* C21: the unbounded sentinel is left out of the report's RPO statistics:
\* max_rpo_minutes is never the sentinel and no sentinel enters the sum of
\* avg_rpo_minutes.
C21_SentinelExcluded ==
    ppc = "reported" =>
        /\ rpo_rto_analysis.max_rpo_minutes.kind # "max"
        /\ rpo_rto_analysis.avg_rpo_minutes.sentinels = 0

\* C23: the RPO recorded in a test result is a finite duration only when the
\* recovery point (snapshot) it was computed from is COMPLETED (available).
C23_FiniteOnlyWhenComplete ==
    /\ (Len(rpos) >= 1 /\ rpos[1].kind = "minutes") =>
          postgresql_answer.points[1].Status = "COMPLETED"
    /\ (Len(rpos) >= 2 /\ rpos[2].kind = "minutes") =>
          redis_answer.points[1].SnapshotStatus = "available"

\* the tests of the instance's latest run_all_tests call that failed
RunFailed == {i \in 1..Len(run_results) : run_results[i].result = FAILED}

\* C24: when a run_all_tests call has returned, its report and notification
\* are those of that call's results alone: total_tests is the number of tests
\* configured for the run, the counts are the counts over the run's results,
\* and the notification is ALERT exactly when a test of that run failed.
C24_FreshPerRun ==
    (upc = "ready" /\ runs >= 1) =>
        /\ run_report.total_tests = Len(Tests(run_environment))
        /\ run_report = Summary(run_results)
        /\ (run_notification = "ALERT") <=> (RunFailed # {})

\* the sum of a table of weights
RECURSIVE SumOfWeights(_)
SumOfWeights(w) == IF w = <<>> THEN Num(0) ELSE Plus(Head(w), SumOfWeights(Tail(w)))

\* C25: a configured weight table that does not sum to 1.0 is rejected before
\* any probe runs: no test of the framework is ever run under such a table.
C25_MisSummedWeightsRejected ==
    (run_resource_weights # <<>> /\ SumOfWeights(run_resource_weights) # Num(1)) =>
        (runs = 0 /\ instance_test_results = <<>>)

====
